---- MODULE Spec2Model ----
(***************************************************************************)
(* Internship tracker (scraper.py): fetch a README, parse its markdown     *)
(* table into listings, reconcile them with the rows of a spreadsheet and  *)
(* rewrite the sheet.  Strings are TLA+ strings, handled a character at a  *)
(* time through Len, SubSeq and \o.                                        *)
(***************************************************************************)
EXTENDS Integers, Sequences, FiniteSets, TLC

VARIABLES
    pc,             \* position of the run inside main / update_sheet
    clock,          \* the wall clock's day, read by datetime.now()
    runs,           \* number of runs started so far
    creds,          \* whether GOOGLE_CREDENTIALS is set in the environment
    fetched,        \* whether this run performed the HTTP GET of fetch_readme
    content,        \* text returned by fetch_readme
    internships,    \* result of parse_markdown_table
    existing_data,  \* rows read from the sheet by update_sheet
    new_data,       \* rows prepared by update_sheet
    appended,       \* whether this run performed sheet.append_rows
    delete_failed,  \* whether this run's sheet.delete_rows raised
    store           \* the data rows of the sheet (header excluded)

vars == <<pc, clock, runs, creds, fetched, content, internships,
          existing_data, new_data, appended, delete_failed, store>>

----------------------------------------------------------------------------
\* Bounds of the model.

MaxLines == 5      \* lines of a document given to the parser alone
MaxRows == 2       \* listings given to update_sheet alone, and prior rows
MaxRuns == 3       \* runs of main
MaxDay == 2        \* days the wall clock goes through

----------------------------------------------------------------------------
\* Python string operations.

\* s[i], or "" when i is past either end of s.
Char(s, i) == IF 1 <= i /\ i <= Len(s) THEN SubSeq(s, i, i) ELSE ""

Whitespace == {" ", "\t", "\r", "\n"}

RECURSIVE lstrip(_)
lstrip(s) ==
    IF Len(s) > 0 /\ Char(s, 1) \in Whitespace
    THEN lstrip(SubSeq(s, 2, Len(s)))
    ELSE s

RECURSIVE rstrip(_)
rstrip(s) ==
    IF Len(s) > 0 /\ Char(s, Len(s)) \in Whitespace
    THEN rstrip(SubSeq(s, 1, Len(s) - 1))
    ELSE s

\* str.strip()
strip(s) == rstrip(lstrip(s))

\* str.startswith(p)
startswith(s, p) == Len(s) >= Len(p) /\ SubSeq(s, 1, Len(p)) = p

\* p in s
Contains(s, p) ==
    \E i \in 1..(Len(s) - Len(p) + 1) : SubSeq(s, i, i + Len(p) - 1) = p

\* Index of the first occurrence of character c in s at or after position
\* from, or 0 when there is none.
IndexFrom(s, c, from) ==
    IF \E i \in from..Len(s) : Char(s, i) = c
    THEN CHOOSE i \in from..Len(s) :
             /\ Char(s, i) = c
             /\ \A k \in from..(i - 1) : Char(s, k) # c
    ELSE 0

\* str.split(sep) for a one-character separator
RECURSIVE split(_, _)
split(s, sep) ==
    LET i == IndexFrom(s, sep, 1) IN
    IF i = 0
    THEN <<s>>
    ELSE <<SubSeq(s, 1, i - 1)>> \o split(SubSeq(s, i + 1, Len(s)), sep)

UpperCase == "ABCDEFGHIJKLMNOPQRSTUVWXYZ"
LowerCase == "abcdefghijklmnopqrstuvwxyz"

LowerChar(c) ==
    LET i == IndexFrom(UpperCase, c, 1) IN
    IF i = 0 THEN c ELSE Char(LowerCase, i)

\* str.lower()
RECURSIVE lower(_)
lower(s) ==
    IF Len(s) = 0 THEN ""
    ELSE LowerChar(Char(s, 1)) \o lower(SubSeq(s, 2, Len(s)))

----------------------------------------------------------------------------
\* The regular expressions of parse_markdown_table.

\* A match of \[([^\]]+)\] starting at i: the closing bracket is the first
\* "]" after i, with at least one character in between.  0 when none.
BracketEnd(s, i) ==
    LET j == IndexFrom(s, "]", i + 1) IN
    IF Char(s, i) = "[" /\ j >= i + 2 THEN j ELSE 0

\* A match of \[([^\]]+)\]\(([^)]+)\) starting at i: the position of the
\* closing parenthesis, or 0 when there is no match at i.
LinkEnd(s, i) ==
    LET j == BracketEnd(s, i)
        k == IndexFrom(s, ")", j + 2)
    IN  IF j # 0 /\ Char(s, j + 1) = "(" /\ k >= j + 3 THEN k ELSE 0

\* re.search(r'\[([^\]]+)\]\(([^)]+)\)', s): <<group 1, group 2>> of the
\* leftmost match, or <<>> when there is none.
SearchLink(s) ==
    IF \E i \in 1..Len(s) : LinkEnd(s, i) # 0
    THEN LET i == CHOOSE i \in 1..Len(s) :
                      /\ LinkEnd(s, i) # 0
                      /\ \A h \in 1..(i - 1) : LinkEnd(s, h) = 0
             j == BracketEnd(s, i)
             k == LinkEnd(s, i)
         IN  <<SubSeq(s, i + 1, j - 1), SubSeq(s, j + 2, k - 1)>>
    ELSE <<>>

\* re.search(r'\[([^\]]+)\]', s): <<group 1>> of the leftmost match, or <<>>.
SearchBracket(s) ==
    IF \E i \in 1..Len(s) : BracketEnd(s, i) # 0
    THEN LET i == CHOOSE i \in 1..Len(s) :
                      /\ BracketEnd(s, i) # 0
                      /\ \A h \in 1..(i - 1) : BracketEnd(s, h) = 0
         IN  <<SubSeq(s, i + 1, BracketEnd(s, i) - 1)>>
    ELSE <<>>

----------------------------------------------------------------------------
\* parse_markdown_table

\* The header test of the scan loop.
IsHeader(line) ==
    /\ Contains(line, "Company")
    /\ Contains(line, "Role")
    /\ Contains(line, "Location")
    /\ startswith(line, "|")

\* cells = [cell.strip() for cell in parts if cell.strip()]
CellsOf(line) ==
    LET parts == split(line, "|")
        stripped == [k \in 1..Len(parts) |-> strip(parts[k])]
    IN  SelectSeq(stripped, LAMBDA cell : cell # "")

\* The listing built from three cells, as a sequence of zero or one listing.
ListingOf(company_cell, role_cell, location_cell) ==
    LET company_match == SearchLink(company_cell)
        company == IF company_match # <<>> THEN company_match[1]
                   ELSE company_cell
        company_link == IF company_match # <<>> THEN company_match[2] ELSE ""
        role_match == SearchBracket(role_cell)
        role == IF role_match # <<>> THEN role_match[1] ELSE role_cell
        location_match == SearchLink(location_cell)
        location == IF location_match # <<>> THEN location_match[1]
                    ELSE location_cell
        app_link == IF location_match # <<>> THEN location_match[2] ELSE ""
        final_link == IF app_link # "" THEN app_link ELSE company_link
    IN  IF company # "" /\ lower(company) \notin {"company", "---", ""}
        THEN <<[company |-> company, role |-> role,
                location |-> location, link |-> final_link]>>
        ELSE <<>>

\* The body of `if in_table and line.startswith('|')`: the listings one table
\* row appends.
RowListings(line) ==
    LET cells == CellsOf(line) IN
    IF Len(cells) >= 3
    THEN ListingOf(cells[1], cells[2], cells[3])
    ELSE <<>>

\* Mutation: the loop never breaks at the end of the table.
TableNeverEnds(in_table, line) == FALSE

\* elif in_table and (not line or not line.startswith('|')): break
TableEnds(in_table, line) ==
    in_table /\ (line = "" \/ ~startswith(line, "|"))

\* The for loop over the lines, from line i on.
RECURSIVE ScanLines(_, _, _, _, _)
ScanLines(lines, i, header_found, in_table, acc) ==
    IF i > Len(lines) THEN acc
    ELSE LET line == strip(lines[i]) IN
         IF ~header_found /\ IsHeader(line)
         THEN ScanLines(lines, i + 1, TRUE, in_table, acc)
         ELSE IF header_found /\ ~in_table /\ Contains(line, "---")
         THEN ScanLines(lines, i + 1, header_found, TRUE, acc)
         ELSE IF in_table /\ startswith(line, "|")
         THEN ScanLines(lines, i + 1, header_found, in_table,
                        acc \o RowListings(line))
         ELSE IF TableEnds(in_table, line)
         THEN acc
         ELSE ScanLines(lines, i + 1, header_found, in_table, acc)

parse_markdown_table(text) ==
    ScanLines(split(text, "\n"), 1, FALSE, FALSE, <<>>)

----------------------------------------------------------------------------
\* update_sheet: the reconciliation of the listings with the sheet's rows.

\* key = f"{company}_{role}"
Key(company, role) == company \o "_" \o role

\* if len(row) >= 2 and row[0] and row[1]
HasCompanyAndRole(row) == Len(row) >= 2 /\ row[1] # "" /\ row[2] # ""

\* Mutation: the entry takes the last column, date_last_checked.
RowDateChecked(row) == IF Len(row) > 5 THEN row[6] ELSE ""

\* 'date_posted': row[4] if len(row) > 4 else ''
RowDatePosted(row) == IF Len(row) > 4 THEN row[5] ELSE ""

\* The indexes of the rows that existing_map[key] was assigned from.
KeyRows(existing, key) ==
    {i \in 1..Len(existing) :
        /\ HasCompanyAndRole(existing[i])
        /\ Key(existing[i][1], existing[i][2]) = key}

\* existing_map.get(key): <<date_posted>> of the entry, which the last row
\* scanned with that key assigned, or <<>> for None.
ExistingGet(existing, key) ==
    LET rows == KeyRows(existing, key) IN
    IF rows = {} THEN <<>>
    ELSE LET last == CHOOSE i \in rows : \A k \in rows : k <= i
         IN  <<RowDatePosted(existing[last])>>

\* Mutation: the run date replaces the date of the prior row.
DatePostedToday(existing, internship, today) == today

\* date_posted = existing['date_posted'] if existing else today
DatePosted(existing, internship, today) ==
    LET found == ExistingGet(existing, Key(internship.company, internship.role))
    IN  IF found # <<>> THEN found[1] ELSE today

\* Mutation: the last column repeats date_posted instead of the run date.
NewRowStale(existing, internship, today) ==
    <<internship.company, internship.role, internship.location,
      internship.link, DatePosted(existing, internship, today),
      DatePosted(existing, internship, today)>>

\* The row appended to new_data for one listing.
NewRow(existing, internship, today) ==
    <<internship.company, internship.role, internship.location,
      internship.link, DatePosted(existing, internship, today), today>>

\* new_data after the loop over the listings.
NewData(existing, listings, today) ==
    [i \in 1..Len(listings) |-> NewRow(existing, listings[i], today)]

Digit(n) == SubSeq("0123456789", n + 1, n + 1)

\* datetime.now().strftime('%Y-%m-%d') on day d of the month.
DateStr(d) == "2026-01-" \o Digit(d \div 10) \o Digit(d % 10)

Today == DateStr(clock)

----------------------------------------------------------------------------
\* Inputs.

RECURSIVE SeqsUpTo(_, _)
SeqsUpTo(S, n) ==
    IF n = 0 THEN {<<>>}
    ELSE LET shorter == SeqsUpTo(S, n - 1)
         IN  shorter \cup {Append(s, x) : s \in shorter, x \in S}

RECURSIVE Join(_, _)
Join(lines, sep) ==
    IF Len(lines) = 0 THEN ""
    ELSE IF Len(lines) = 1 THEN lines[1]
    ELSE lines[1] \o sep \o Join(Tail(lines), sep)

HeaderLine == "| Company | Role | Location | Application |"
SeparatorLine == "| --- | --- | --- | --- |"

\* Table rows of the README: two distinct (company, role) pairs whose keys
\* are the same string, one pair listed with two locations, and another pair.
FeedRows ==
    {"| a | b_c | NYC |",
     "| a_b | c | NYC |",
     "| [a](http://a.co) | b_c | [SF](http://apply.co) |",
     "| x | y | Remote |"}

\* READMEs the feed can return to a run of main.
FeedDocs ==
    {"# Summer Internships",
     Join(<<HeaderLine, SeparatorLine>>, "\n"),
     Join(<<HeaderLine, SeparatorLine, "| a | b_c | NYC |">>, "\n"),
     Join(<<HeaderLine, SeparatorLine, "| a_b | c | NYC |",
            "| x | y | Remote |">>, "\n"),
     Join(<<HeaderLine, SeparatorLine,
            "| [a](http://a.co) | b_c | [SF](http://apply.co) |",
            "| a | b_c | NYC |">>, "\n")}

\* The listings the parser makes of the table rows.
Listings == {RowListings(r)[1] : r \in FeedRows}

\* Rows a run on day c wrote: first added on that day or an earlier one,
\* last checked on day c.
PriorRows(c) ==
    {<<l.company, l.role, l.location, l.link, DateStr(a), DateStr(c)>> :
        l \in Listings, a \in 1..c}

\* Sheets an earlier run left behind for a run on day d.
PriorSnapshots(d) == UNION {SeqsUpTo(PriorRows(c), MaxRows) : c \in 1..d}

----------------------------------------------------------------------------
\* main, one action per step of a run.

Init ==
    /\ pc = "idle"
    /\ clock = 1
    /\ runs = 0
    /\ creds \in BOOLEAN
    /\ fetched = FALSE
    /\ content = ""
    /\ internships = <<>>
    /\ existing_data = <<>>
    /\ new_data = <<>>
    /\ appended = FALSE
    /\ delete_failed = FALSE
    /\ store = <<>>

\* The scheduler invokes main; the clock may have moved on a day, and the
\* environment may or may not hold the credentials.
Start ==
    /\ pc \in {"idle", "done", "fatal"}
    /\ runs < MaxRuns
    /\ runs' = runs + 1
    /\ clock' \in {d \in {clock, clock + 1} : d <= MaxDay}
    /\ creds' \in BOOLEAN
    /\ fetched' = FALSE
    /\ content' = ""
    /\ internships' = <<>>
    /\ existing_data' = <<>>
    /\ new_data' = <<>>
    /\ appended' = FALSE
    /\ delete_failed' = FALSE
    /\ pc' = "fetch"
    /\ UNCHANGED store

\* content = fetch_readme(): the GET succeeds.
FetchOk ==
    /\ pc = "fetch"
    /\ fetched' = TRUE
    /\ content' \in FeedDocs
    /\ pc' = "parse"
    /\ UNCHANGED <<clock, runs, creds, internships, existing_data, new_data,
                   appended, delete_failed, store>>

\* fetch_readme(): the GET fails or raise_for_status raises.
FetchFail ==
    /\ pc = "fetch"
    /\ fetched' = TRUE
    /\ pc' = "fatal"
    /\ UNCHANGED <<clock, runs, creds, content, internships, existing_data,
                   new_data, appended, delete_failed, store>>

\* internships = parse_markdown_table(content), then `if internships:`.
Parse ==
    /\ pc = "parse"
    /\ internships' = parse_markdown_table(content)
    /\ pc' = IF internships' # <<>> THEN "credentials" ELSE "done"
    /\ UNCHANGED <<clock, runs, creds, fetched, content, existing_data,
                   new_data, appended, delete_failed, store>>

\* update_sheet: creds = get_credentials() returns.
GetCredentialsOk ==
    /\ pc = "credentials"
    /\ creds
    /\ pc' = "read"
    /\ UNCHANGED <<clock, runs, creds, fetched, content, internships,
                   existing_data, new_data, appended, delete_failed, store>>

\* update_sheet: get_credentials() raises ValueError.
GetCredentialsMissing ==
    /\ pc = "credentials"
    /\ ~creds
    /\ pc' = "fatal"
    /\ UNCHANGED <<clock, runs, creds, fetched, content, internships,
                   existing_data, new_data, appended, delete_failed, store>>

\* existing_data = sheet.get_all_values()[1:], then the rows are prepared.
ReadOk ==
    /\ pc = "read"
    /\ existing_data' = store
    /\ new_data' = NewData(store, internships, Today)
    /\ pc' = "clear"
    /\ UNCHANGED <<clock, runs, creds, fetched, content, internships,
                   appended, delete_failed, store>>

\* get_all_values() raises: except: existing_data = [].
ReadFail ==
    /\ pc = "read"
    /\ existing_data' = <<>>
    /\ new_data' = NewData(<<>>, internships, Today)
    /\ pc' = "clear"
    /\ UNCHANGED <<clock, runs, creds, fetched, content, internships,
                   appended, delete_failed, store>>

\* sheet.delete_rows(2, len(existing_data) + 1) succeeds.
ClearOk ==
    /\ pc = "clear"
    /\ Len(existing_data) > 0
    /\ store' = SubSeq(store, Len(existing_data) + 1, Len(store))
    /\ pc' = "append"
    /\ UNCHANGED <<clock, runs, creds, fetched, content, internships,
                   existing_data, new_data, appended, delete_failed>>

\* sheet.delete_rows raises: except: pass.
ClearFail ==
    /\ pc = "clear"
    /\ Len(existing_data) > 0
    /\ delete_failed' = TRUE
    /\ pc' = "append"
    /\ UNCHANGED <<clock, runs, creds, fetched, content, internships,
                   existing_data, new_data, appended, store>>

\* len(existing_data) == 0: nothing to delete.
ClearSkip ==
    /\ pc = "clear"
    /\ Len(existing_data) = 0
    /\ pc' = "append"
    /\ UNCHANGED <<clock, runs, creds, fetched, content, internships,
                   existing_data, new_data, appended, delete_failed, store>>

\* sheet.append_rows(new_data) succeeds; main prints "Done!".  new_data is
\* never empty here: main calls update_sheet only with listings.
AppendOk ==
    /\ pc = "append"
    /\ new_data # <<>>
    /\ store' = store \o new_data
    /\ appended' = TRUE
    /\ pc' = "done"
    /\ UNCHANGED <<clock, runs, creds, fetched, content, internships,
                   existing_data, new_data, delete_failed>>

\* sheet.append_rows raises.
AppendFail ==
    /\ pc = "append"
    /\ new_data # <<>>
    /\ pc' = "fatal"
    /\ UNCHANGED <<clock, runs, creds, fetched, content, internships,
                   existing_data, new_data, appended, delete_failed, store>>

update_sheet ==
    \/ GetCredentialsOk
    \/ GetCredentialsMissing
    \/ ReadOk
    \/ ReadFail
    \/ ClearOk
    \/ ClearFail
    \/ ClearSkip
    \/ AppendOk
    \/ AppendFail

Next ==
    \/ Start
    \/ FetchOk
    \/ FetchFail
    \/ Parse
    \/ update_sheet

Spec == Init /\ [][Next]_vars

----------------------------------------------------------------------------
\* update_sheet alone, its calls of the sheet succeeding: called with any
\* listings the parser can produce, on a sheet an earlier run left behind, and
\* called once more with the same listings on the same day.

InitRecon ==
    /\ pc = "read"
    /\ clock = MaxDay
    /\ runs = 1
    /\ creds = TRUE
    /\ fetched = TRUE
    /\ content = ""
    /\ internships \in SeqsUpTo(Listings, MaxRows) \ {<<>>}
    /\ existing_data = <<>>
    /\ new_data = <<>>
    /\ appended = FALSE
    /\ delete_failed = FALSE
    /\ store \in PriorSnapshots(clock)

\* The same listings are handed to update_sheet a second time.
RunAgain ==
    /\ pc = "done"
    /\ runs = 1
    /\ runs' = 2
    /\ appended' = FALSE
    /\ delete_failed' = FALSE
    /\ pc' = "read"
    /\ UNCHANGED <<clock, creds, fetched, content, internships,
                   existing_data, new_data, store>>

NextRecon ==
    \/ ReadOk
    \/ ClearOk
    \/ ClearSkip
    \/ AppendOk
    \/ RunAgain

SpecRecon == InitRecon /\ [][NextRecon]_vars

----------------------------------------------------------------------------
\* parse_markdown_table alone, on every document of a few lines.

DocLines ==
    {"| Company | Role | Location |",
     "|---|---|---|",
     "| [Acme](http://acme.co) | SWE Intern | [Remote](http://apply.co) |",
     "| Acme | | NYC | x |",
     "  | Gamma | QA |",
     "",
     "See --- notes"}

InitParse ==
    /\ pc = "parse"
    /\ clock = 1
    /\ runs = 1
    /\ creds = TRUE
    /\ fetched = TRUE
    /\ content \in {Join(d, "\n") : d \in SeqsUpTo(DocLines, MaxLines)}
    /\ internships = <<>>
    /\ existing_data = <<>>
    /\ new_data = <<>>
    /\ appended = FALSE
    /\ delete_failed = FALSE
    /\ store = <<>>

NextParse == Parse

SpecParse == InitParse /\ [][NextParse]_vars

----------------------------------------------------------------------------
\* Vocabulary of the properties.

\* Whether a listing and a sheet row have the same company and the same role.
SamePair(internship, row) ==
    internship.company = row[1] /\ internship.role = row[2]

\* The prior rows whose key is the key of the listing.
RowsWithKeyOf(internship) ==
    {j \in 1..Len(existing_data) :
        Key(existing_data[j][1], existing_data[j][2])
            = Key(internship.company, internship.role)}

LastOf(S) == CHOOSE j \in S : \A k \in S : k <= j

\* The rows of this call of update_sheet are prepared.
Prepared == new_data # <<>>

\* The lines of the document as the scan loop sees them.
StrippedLines(text) ==
    LET lines == split(text, "\n")
    IN  [k \in 1..Len(lines) |-> strip(lines[k])]

\* First index after `from` of a line satisfying Test, or 0.
FirstAfter(lines, from, Test(_)) ==
    LET hits == {k \in (from + 1)..Len(lines) : Test(lines[k])}
    IN  IF hits = {} THEN 0 ELSE CHOOSE k \in hits : \A h \in hits : k <= h

HeaderAt(lines) == FirstAfter(lines, 0, IsHeader)

SeparatorAt(lines) ==
    IF HeaderAt(lines) = 0 THEN 0
    ELSE FirstAfter(lines, HeaderAt(lines), LAMBDA l : Contains(l, "---"))

\* Index of the line that ends the table, or one past the last line.
TableEndAt(lines) ==
    LET e == FirstAfter(lines, SeparatorAt(lines),
                        LAMBDA l : l = "" \/ ~startswith(l, "|"))
    IN  IF e = 0 THEN Len(lines) + 1 ELSE e

RECURSIVE Flatten(_)
Flatten(seqs) ==
    IF Len(seqs) = 0 THEN <<>> ELSE Head(seqs) \o Flatten(Tail(seqs))

\* The listings of lines from..to, in document order, each row read by Row.
RowsBetween(lines, from, to, Row(_)) ==
    Flatten([k \in 1..(to - from + 1) |-> Row(lines[from + k - 1])])

\* The listings of the rows between the separator and the table end.
TableListings(text, Row(_)) ==
    LET lines == StrippedLines(text) IN
    IF SeparatorAt(lines) = 0 THEN <<>>
    ELSE RowsBetween(lines, SeparatorAt(lines) + 1, TableEndAt(lines) - 1, Row)

\* The columns of a row: the fragments between the pipes, trimmed, without the
\* empty fragment before the leading pipe and after the trailing pipe.
Columns(line) ==
    LET parts == split(line, "|")
        cells == [k \in 1..Len(parts) |-> strip(parts[k])]
        from == IF cells[1] = "" THEN 2 ELSE 1
        to == IF cells[Len(cells)] = "" THEN Len(cells) - 1 ELSE Len(cells)
    IN  SubSeq(cells, from, to)

\* A row read by column position: skipped with fewer than 3 non-empty cells.
RowByColumns(line) ==
    LET cols == Columns(line) IN
    IF Len(SelectSeq(cols, LAMBDA c : c # "")) >= 3
    THEN ListingOf(cols[1], cols[2], cols[3])
    ELSE <<>>

----------------------------------------------------------------------------
\* Properties.

\* C1: for every fetched listing whose key is the key of a row of the prior
\* snapshot read from the sheet, the row written for it carries in column 5
\* (date_first_added) the value of the last such prior row, whatever the
\* listing's location and link are now.
C1_PriorDateKept ==
    Prepared =>
        \A i \in 1..Len(internships) :
            RowsWithKeyOf(internships[i]) # {} =>
                new_data[i][5]
                    = existing_data[LastOf(RowsWithKeyOf(internships[i]))][5]

\* C1 happens: a finished call wrote a row for a listing whose location
\* differs from that of its prior row and whose date, older than the run
\* date, is the one of the last of two prior rows with its key.
C1_Witness ==
    /\ pc = "done"
    /\ \E i \in 1..Len(internships) :
          \E j \in RowsWithKeyOf(internships[i]) :
              /\ SamePair(internships[i], existing_data[j])
              /\ internships[i].location # existing_data[j][3]
              /\ j = LastOf(RowsWithKeyOf(internships[i]))
              /\ Cardinality(RowsWithKeyOf(internships[i])) = 2
              /\ existing_data[j][5] # Today
              /\ existing_data[1][5] # existing_data[2][5]
              /\ new_data[i][5] = existing_data[j][5]

\* C2: when no fetched listing has the same (company, role) pair as any row of
\* the prior snapshot, every row written has date_first_added equal to the
\* run date.
C2_DisjointPairsGetRunDate ==
    (/\ Prepared
     /\ \A i \in 1..Len(internships) : \A j \in 1..Len(existing_data) :
            ~SamePair(internships[i], existing_data[j]))
    => \A i \in 1..Len(new_data) : new_data[i][5] = Today

\* C3: after a run that ends without a fatal error, every data row of the
\* sheet has the (company, role) pair of one of that run's fetched listings.
C3_StoreHoldsOnlyFetched ==
    pc = "done" =>
        \A j \in 1..Len(store) :
            \E i \in 1..Len(internships) : SamePair(internships[i], store[j])

\* C4: the rows written by a run hold at most one row per (company, role)
\* pair.
C4_OneRowPerPair ==
    \A i, j \in 1..Len(new_data) :
        (new_data[i][1] = new_data[j][1] /\ new_data[i][2] = new_data[j][2])
            => i = j

\* C5: when update_sheet runs again with the same listings on the same day
\* and reads back exactly the rows its first run wrote, the rows it prepares
\* are the rows of the first run, in the same order.
C5_Idempotent ==
    [][(/\ runs = 2
        /\ pc = "read"
        /\ store = new_data
        /\ existing_data' = store)
       => new_data' = new_data]_vars

\* C5 happens: the second run has read back the first run's rows, two of
\* them, one of which carries a date older than the run date.
C5_Witness ==
    /\ runs = 2
    /\ pc = "clear"
    /\ existing_data = new_data
    /\ Len(new_data) = 2
    /\ \E i \in 1..Len(new_data) : new_data[i][5] # Today
    /\ \E i \in 1..Len(new_data) : new_data[i][5] = Today

\* C6: every row written by update_sheet has date_last_checked, its last
\* column, equal to the run date.
C6_LastCheckedIsRunDate ==
    \A i \in 1..Len(new_data) :
        Len(new_data[i]) = 6 /\ new_data[i][Len(new_data[i])] = Today

\* C6 happens: a finished call wrote a row that kept an older first-added
\* date and a row first added today, both last checked today.
C6_Witness ==
    /\ pc = "done"
    /\ \E i, j \in 1..Len(new_data) :
          /\ RowsWithKeyOf(internships[i]) # {}
          /\ new_data[i][5] # Today
          /\ new_data[i][6] = Today
          /\ RowsWithKeyOf(internships[j]) = {}
          /\ new_data[j][5] = Today
          /\ new_data[j][6] = Today

\* C7: a run whose credentials are missing never performs the feed fetch and
\* does not end normally.
C7_NoFetchWithoutCredentials ==
    ~creds => (~fetched /\ pc # "done")

\* C8: a run whose delete of the existing rows failed does not perform the
\* append.
C8_FailedClearStopsRun ==
    delete_failed => ~appended

\* C9: the parser's result is the listings of the lines after the header and
\* the separator that follows it and before the first later line that is
\* empty or does not start with a pipe, in document order; it is empty when no
\* header or no separator is found.
C9_OnlyTableRows ==
    pc # "parse" => internships = TableListings(content, RowListings)

\* C9 happens: the parser returned listings from a document whose table is
\* ended by a line that a well-formed table row follows.
C9_Witness ==
    /\ pc # "parse"
    /\ internships # <<>>
    /\ LET lines == StrippedLines(content) IN
          /\ SeparatorAt(lines) # 0
          /\ \E k \in (TableEndAt(lines) + 1)..Len(lines) :
                RowListings(lines[k]) # <<>>

\* C10: company, role and location of every listing are taken from the first,
\* second and third column of its row, only the empty fragments of the leading
\* and trailing pipes being discarded, and a row with fewer than 3 non-empty
\* cells is skipped.
C10_ColumnsByPosition ==
    pc # "parse" => internships = TableListings(content, RowByColumns)

====
